---------------------------- MODULE Spec2Model ----------------------------
(***************************************************************************)
(* State-machine model of the storefront theme widgets:                    *)
(*   - ComparisonShowcase (assets/comparison-showcase.js): the mobile      *)
(*     accordion toggle of the comparison table;                           *)
(*   - BrandShowcase: the brand-directory alphabet filter with its         *)
(*     two-phase animation and its history synchronisation;                *)
(*   - SilverchefCalculator: the finance calculator modal with its         *)
(*     delayed result.                                                     *)
(* Each widget has a specification of its own (Spec for the brand          *)
(* directory, ComparisonSpec for the comparison table, CalculatorSpec for  *)
(* the calculator); the other widgets are absent from the page in that     *)
(* specification.                                                          *)
(* Strings that the code takes apart (the URL fragment, the letters) are   *)
(* sequences of one-character strings, so that startsWith and substring    *)
(* are computed as the code computes them.                                 *)
(***************************************************************************)
EXTENDS Integers, Sequences, FiniteSets, TLC

VARIABLES
  \* ---- ComparisonShowcase ----
  connected,      \* connectedCallback has run (init done)
  innerWidth,     \* window.innerWidth
  mobileState,    \* block -> value of its data-mobile-state attribute ("" = absent)
  mobileSide,     \* block -> value of its data-mobile-side attribute
  ariaExpanded,   \* block -> aria-expanded of its toggle ("" = never set)
  listening,      \* the click/keydown listeners are bound to the toggle buttons
  dispatched,     \* the custom events dispatched by the handler that ran last
  lastInput       \* the input the widget received last, and the state the
                  \* block it names had before it (history variable)

VARIABLES
  \* ---- BrandShowcase ----
  constructed,     \* new BrandShowcase(...) has run
  enableAnimation, \* options.enableAnimation
  cardLetter,      \* card -> its data-letter
  currentFilter,   \* this.currentFilter
  isAnimating,     \* this.isAnimating
  activeButton,    \* the letters whose alphabet button carries class `active`
  disabledButton,  \* the letters whose alphabet button is disabled
  cardClass,       \* card -> its transient classes (filtering-hide/-show)
  cardDisplay,     \* card -> its style.display ("" = not set)
  emptyDisplay,    \* emptyState.style.display ("" = not set)
  gridDisplay,     \* brandGrid.style.display ("" = not set)
  hash,            \* window.location.hash
  histEntries,     \* the session history: the fragment of each entry
  histIndex,       \* the current entry of the session history
  timers,          \* the pending animation timers, in the order they were set
  announcements,   \* the live-region elements in document.body, each with its
                   \* removal timer pending, oldest first
  lastReq          \* the filter request received last (history variable)

VARIABLES
  \* ---- SilverchefCalculator ----
  modal,           \* this.modal is set, and with it amountInput and the four
                   \* containers (openModal sets them together)
  modalActive,     \* the modal carries class `active`
  bodyOverflow,    \* document.body.style.overflow
  amountValue,     \* amountInput.value, the text in the amount field
  panelDisplay,    \* container -> its style.display ("" = not set)
  errorMessage,    \* the text of the error paragraph
  rendered,        \* the texts of the six result elements
  pending,         \* the calculations waiting for their 1500 ms delay, each
                   \* with the results it will show, oldest first
  lastCalc         \* the calculate request made last, and whether the modal
                   \* was closed after it (history variable)

cmpVars == <<connected, innerWidth, mobileState, mobileSide, ariaExpanded,
             listening, dispatched, lastInput>>

brandVars == <<constructed, enableAnimation, cardLetter, currentFilter,
               isAnimating, activeButton, disabledButton, cardClass,
               cardDisplay, emptyDisplay, gridDisplay, hash, histEntries,
               histIndex, timers, announcements, lastReq>>

calcVars == <<modal, modalActive, bodyOverflow, amountValue, panelDisplay,
              errorMessage, rendered, pending, lastCalc>>

vars == <<cmpVars, brandVars, calcVars>>

(***************************************************************************)
(*                          ComparisonShowcase                             *)
(***************************************************************************)

\* Bounds of the model.
MaxBlocks == 3

\* this.breakpoint = 900
breakpoint == 900

Blocks == 1..MaxBlocks
Sides == {"left", "right"}
\* data-mobile-state as the markup may carry it: a state, or no attribute.
MarkupStates == {"expanded", "collapsed", ""}
\* Window widths around the breakpoint.
Widths == {breakpoint - 1, breakpoint, breakpoint + 300}
Keys == {"Enter", " ", "Tab"}

NoInput == [type |-> "none", block |-> 0, was |-> ""]

\* isMobileView(): window.innerWidth < this.breakpoint
\* (isMobileViewLE: the off-by-one variant.)
isMobileViewLE(w) == w <= breakpoint
isMobileView(w) == w < breakpoint

\* The part of the document the handlers read and write.
Dom == [state |-> mobileState, aria |-> ariaExpanded, events |-> <<>>]

\* updateAriaAttributes(): aria-expanded of every toggle mirrors the state.
updateAriaAttributes(dom) ==
  [dom EXCEPT !.aria = [b \in Blocks |->
                          IF dom.state[b] = "expanded" THEN "true" ELSE "false"]]

\* dispatchCustomEvent(block, eventName): detail = {block, side}; `state` is
\* what a listener reads from the block's attribute when the event arrives.
dispatchCustomEvent(dom, b, eventName) ==
  [dom EXCEPT !.events = Append(@, [name  |-> eventName,
                                    block |-> b,
                                    side  |-> mobileSide[b],
                                    state |-> dom.state[b]])]

\* (expandBlockDispatchFirst: the variant that dispatches the event before
\* it sets the attribute.)
expandBlockDispatchFirst(dom, b) ==
  LET sent == dispatchCustomEvent(dom, b, "comparison:expanded")
  IN updateAriaAttributes([sent EXCEPT !.state[b] = "expanded"])

expandBlock(dom, b) ==
  dispatchCustomEvent(
    updateAriaAttributes([dom EXCEPT !.state[b] = "expanded"]),
    b, "comparison:expanded")

collapseBlock(dom, b) ==
  dispatchCustomEvent(
    updateAriaAttributes([dom EXCEPT !.state[b] = "collapsed"]),
    b, "comparison:collapsed")

\* setInitialState(): mobileBlocks.forEach from block i on, then
\* updateAriaAttributes().
RECURSIVE setInitialStateFrom(_, _)
setInitialStateFrom(dom, i) ==
  IF i > MaxBlocks THEN updateAriaAttributes(dom)
  ELSE setInitialStateFrom(
         IF dom.state[i] = "expanded" THEN expandBlock(dom, i)
                                      ELSE collapseBlock(dom, i),
         i + 1)

setInitialState(dom) == setInitialStateFrom(dom, 1)

\* handleToggle's forEach from block i on: the clicked block is expanded,
\* every other block is collapsed. (toggleFromTrueToggle: the click-to-close
\* variant, which the code does not implement.)
RECURSIVE toggleFromTrueToggle(_, _, _)
toggleFromTrueToggle(dom, block, i) ==
  IF i > MaxBlocks THEN dom
  ELSE toggleFromTrueToggle(
         IF i = block
           THEN (IF dom.state[i] = "expanded" THEN collapseBlock(dom, block)
                                              ELSE expandBlock(dom, block))
           ELSE collapseBlock(dom, i),
         block, i + 1)

RECURSIVE toggleFrom(_, _, _)
toggleFrom(dom, block, i) ==
  IF i > MaxBlocks THEN dom
  ELSE toggleFrom(
         IF i = block THEN expandBlock(dom, block) ELSE collapseBlock(dom, i),
         block, i + 1)

\* handleToggle(event) with event.currentTarget the toggle of `block`:
\* returns the document unchanged when the view is not mobile.
\* (handleToggleClosing: the variant that closes the block when it is open.)
handleToggleClosing(dom, block) ==
  IF ~isMobileView(innerWidth) THEN dom ELSE toggleFromTrueToggle(dom, block, 1)

handleToggle(dom, block) ==
  IF ~isMobileView(innerWidth) THEN dom ELSE toggleFrom(dom, block, 1)

\* What init() and handleResize() do for window width w:
\* enableMobileToggle() = bindEvents + setInitialState, or
\* disableMobileToggle() = removeEvents.
ApplyViewport(w) ==
  IF isMobileView(w)
    THEN LET dom == setInitialState(Dom) IN
         /\ listening' = TRUE
         /\ mobileState' = dom.state
         /\ ariaExpanded' = dom.aria
         /\ dispatched' = dom.events
    ELSE /\ listening' = FALSE
         /\ dispatched' = <<>>
         /\ UNCHANGED <<mobileState, ariaExpanded>>

\* The document as handler result `dom` leaves it.
Commit(dom) ==
  /\ mobileState' = dom.state
  /\ ariaExpanded' = dom.aria
  /\ dispatched' = dom.events

\* The element before it is connected: the markup's attributes, any width.
ComparisonInit ==
  /\ connected = FALSE
  /\ innerWidth \in Widths
  /\ mobileState \in [Blocks -> MarkupStates]
  /\ mobileSide \in [Blocks -> Sides]
  /\ ariaExpanded = [b \in Blocks |-> ""]
  /\ listening = FALSE
  /\ dispatched = <<>>
  /\ lastInput = NoInput

\* connectedCallback() -> init()
connectedCallback ==
  /\ ~connected
  /\ connected' = TRUE
  /\ ApplyViewport(innerWidth)
  /\ lastInput' = [type |-> "connect", block |-> 0, was |-> ""]
  /\ UNCHANGED <<innerWidth, mobileSide, brandVars, calcVars>>

\* The window is resized to width w and the resize event is handled.
handleResize(w) ==
  /\ connected
  /\ innerWidth' = w
  /\ ApplyViewport(w)
  /\ lastInput' = [type |-> "resize", block |-> 0, was |-> ""]
  /\ UNCHANGED <<connected, mobileSide, brandVars, calcVars>>

\* A click on the toggle of block b: handleToggle runs when it is bound.
click(b) ==
  /\ connected
  /\ Commit(IF listening THEN handleToggle(Dom, b) ELSE Dom)
  /\ lastInput' = [type |-> "click", block |-> b, was |-> mobileState[b]]
  /\ UNCHANGED <<connected, innerWidth, mobileSide, listening, brandVars, calcVars>>

\* handleKeydown(e) on the toggle of block b: Enter and Space toggle.
handleKeydown(b, key) ==
  /\ connected
  /\ Commit(IF listening /\ key \in {"Enter", " "}
              THEN handleToggle(Dom, b) ELSE Dom)
  /\ lastInput' = [type |-> IF key \in {"Enter", " "} THEN "key" ELSE "otherkey",
                   block |-> b, was |-> mobileState[b]]
  /\ UNCHANGED <<connected, innerWidth, mobileSide, listening, brandVars, calcVars>>

\* querySelector(`[data-mobile-side="${side}"]`): the first block with that
\* side, 0 when there is none.
blockOfSide(side) ==
  IF \E b \in Blocks : mobileSide[b] = side
    THEN CHOOSE b \in Blocks :
           /\ mobileSide[b] = side
           /\ \A c \in Blocks : mobileSide[c] = side => b <= c
    ELSE 0

\* toggleBlock(side): the public method; toggle.click() runs the bound
\* listener.
toggleBlock(side) ==
  LET b == blockOfSide(side) IN
  /\ connected
  /\ Commit(IF isMobileView(innerWidth) /\ b # 0 /\ listening
              THEN handleToggle(Dom, b) ELSE Dom)
  /\ lastInput' = [type |-> "api", block |-> b,
                   was |-> IF b = 0 THEN "" ELSE mobileState[b]]
  /\ UNCHANGED <<connected, innerWidth, mobileSide, listening, brandVars, calcVars>>

ComparisonNext ==
  \/ connectedCallback
  \/ \E w \in Widths : handleResize(w)
  \/ \E b \in Blocks : click(b)
  \/ \E b \in Blocks, key \in Keys : handleKeydown(b, key)
  \/ \E side \in Sides : toggleBlock(side)

(***************************************************************************)
(*                             BrandShowcase                               *)
(***************************************************************************)

\* Bounds of the model.
MaxCards == 2
MaxHistory == 4
MaxAnnouncements == 2

Cards == 1..MaxCards

\* 'all', and the letters the cards and the requests of the model use.
All == <<"a", "l", "l">>
Letters == {<<"A">>, <<"B">>}
\* The alphabet buttons: one per letter, and the `all` button.
ButtonLetters == {All} \cup Letters
\* The letters a caller of setFilter passes.
RequestLetters == {All} \cup Letters

\* '#letter-'
LetterPrefix == <<"#", "l", "e", "t", "t", "e", "r", "-">>
\* `#letter-${letter}`
Fragment(letter) == LetterPrefix \o letter

\* The fragments a page may be loaded with.
InitialFragments ==
  { <<>>,
    Fragment(<<"A">>),
    Fragment(<<"Z", "Z">>),
    <<"#", "o", "t", "h", "e", "r">> }

NoReq == [via |-> "none", letter |-> <<>>, accepted |-> FALSE]

\* String.prototype.startsWith and substring(n), on character sequences.
startsWith(str, prefix) ==
  /\ Len(str) >= Len(prefix)
  /\ SubSeq(str, 1, Len(prefix)) = prefix

substring(str, n) == SubSeq(str, n + 1, Len(str))

\* getLetterFromURL(), of window.location.hash = h.
\* (getLetterFromURLOffByOne: substring(7), which keeps the '-'.)
getLetterFromURLOffByOne(h) ==
  IF startsWith(h, LetterPrefix) THEN substring(h, 7) ELSE All

getLetterFromURL(h) ==
  IF startsWith(h, LetterPrefix) THEN substring(h, 8) ELSE All

\* letter.toUpperCase(), for the characters the model uses.
toUpperCase(str) ==
  [i \in 1..Len(str) |->
     CASE str[i] = "a" -> "A"
       [] str[i] = "b" -> "B"
       [] str[i] = "l" -> "L"
       [] OTHER -> str[i]]

\* The widget and the part of the window its handlers read and write.
Brand ==
  [currentFilter |-> currentFilter, isAnimating |-> isAnimating,
   active |-> activeButton, disabled |-> disabledButton,
   cardClass |-> cardClass, cardDisplay |-> cardDisplay,
   emptyDisplay |-> emptyDisplay, gridDisplay |-> gridDisplay,
   hash |-> hash, entries |-> histEntries, index |-> histIndex,
   timers |-> timers, announcements |-> announcements]

\* cardMatchesFilter(card, letter)
cardMatchesFilter(card, letter) ==
  IF letter = All THEN TRUE ELSE cardLetter[card] = letter

\* history.pushState(null, '', url) with the url's fragment h: the entries
\* after the current one are dropped and the new entry becomes current.
pushState(s, h) ==
  [s EXCEPT !.entries = Append(SubSeq(s.entries, 1, s.index), h),
            !.index = s.index + 1,
            !.hash = h]

\* updateURL(letter)
updateURL(s, letter) ==
  IF letter = <<>> \/ letter = All
    THEN IF s.hash # <<>> THEN pushState(s, <<>>) ELSE s
    ELSE pushState(s, Fragment(letter))

\* updateActiveButton(letter)
updateActiveButton(s, letter) ==
  [s EXCEPT !.active = {b \in ButtonLetters : b = letter}]

\* (updateEmptyStateKeepingGrid: the variant that leaves the grid alone.)
updateEmptyStateKeepingGrid(s, isEmpty) ==
  IF isEmpty
    THEN [s EXCEPT !.emptyDisplay = "block"]
    ELSE [s EXCEPT !.emptyDisplay = "none"]

\* updateEmptyState(isEmpty)
updateEmptyState(s, isEmpty) ==
  IF isEmpty
    THEN [s EXCEPT !.emptyDisplay = "block", !.gridDisplay = "none"]
    ELSE [s EXCEPT !.emptyDisplay = "none", !.gridDisplay = "grid"]

\* updateCounts(): a letter's button is disabled when no card carries it.
updateCounts(s) ==
  [s EXCEPT !.disabled =
     {b \in ButtonLetters \ {All} : ~ \E c \in Cards : cardLetter[c] = b}]

\* announceToScreenReader(message): the element is appended to document.body
\* and its removal is scheduled.
\* (announceToScreenReaderTwice: the variant that inserts the element twice.)
announceToScreenReaderTwice(s, message) ==
  [s EXCEPT !.announcements = Append(Append(@, message), message)]

announceToScreenReader(s, message) ==
  [s EXCEPT !.announcements = Append(@, message)]

\* announceFilterChange(letter)
announceFilterChange(s, letter) ==
  announceToScreenReader(s,
    IF letter = All
      THEN [text |-> "Showing all brands", letter |-> <<>>]
      ELSE [text |-> "Showing brands starting with ",
            letter |-> toUpperCase(letter)])

\* animateFilter(letter), up to the first setTimeout: the non-matching cards
\* get filtering-hide; the timer keeps cardsToShow.
animateFilter(s, letter) ==
  LET cardsToHide == {c \in Cards : ~cardMatchesFilter(c, letter)}
      cardsToShow == {c \in Cards : cardMatchesFilter(c, letter)}
  IN [s EXCEPT
        !.isAnimating = TRUE,
        !.cardClass = [c \in Cards |->
                         IF c \in cardsToHide
                           THEN (s.cardClass[c] \cup {"filtering-hide"})
                                  \ {"filtering-show"}
                           ELSE s.cardClass[c]],
        !.timers = Append(@, [kind |-> "show", cardsToShow |-> cardsToShow])]

\* instantFilter(letter)
instantFilter(s, letter) ==
  LET visibleCards == {c \in Cards : cardMatchesFilter(c, letter)}
  IN updateEmptyState(
       [s EXCEPT !.cardDisplay =
          [c \in Cards |->
             IF cardMatchesFilter(c, letter) THEN "block" ELSE "none"]],
       visibleCards = {})

\* cleanupFilterClasses()
cleanupFilterClasses(s) ==
  [s EXCEPT !.cardClass =
     [c \in Cards |-> s.cardClass[c] \ {"filtering-hide", "filtering-show"}]]

\* filterByLetter(letter, updateHistory = true)
\* (filterByLetterUnguarded: the variant without the isAnimating guard.)
filterByLetterUnguarded(s, letter, updateHistory) ==
  LET s1 == updateActiveButton([s EXCEPT !.currentFilter = letter], letter)
      s2 == IF enableAnimation THEN animateFilter(s1, letter)
                               ELSE instantFilter(s1, letter)
      s3 == IF updateHistory THEN updateURL(s2, letter) ELSE s2
  IN announceFilterChange(s3, letter)

filterByLetter(s, letter, updateHistory) ==
  IF s.isAnimating /\ enableAnimation THEN s
  ELSE LET s1 == updateActiveButton([s EXCEPT !.currentFilter = letter], letter)
           s2 == IF enableAnimation THEN animateFilter(s1, letter)
                                    ELSE instantFilter(s1, letter)
           s3 == IF updateHistory THEN updateURL(s2, letter) ELSE s2
       IN announceFilterChange(s3, letter)

\* handleInitialFilter()
handleInitialFilter(s) ==
  LET letter == getLetterFromURL(s.hash) IN
  IF letter # <<>> /\ letter # All THEN filterByLetter(s, letter, FALSE) ELSE s

\* init(): bindEvents, updateURL, handleInitialFilter, updateCounts.
init(s) == updateCounts(handleInitialFilter(updateURL(s, s.currentFilter)))

\* handleAlphabetClick(event) on the button of `letter`.
handleAlphabetClick(s, letter) ==
  IF s.isAnimating THEN s
  ELSE IF letter \in s.disabled \/ letter = s.currentFilter THEN s
  ELSE updateURL(filterByLetter(s, letter, TRUE), letter)

\* handleShowAllClick(event)
handleShowAllClick(s) == updateURL(filterByLetter(s, All, TRUE), All)

\* handlePopState(event)
handlePopStatePushing(s) == filterByLetter(s, getLetterFromURL(s.hash), TRUE)

handlePopState(s) == filterByLetter(s, getLetterFromURL(s.hash), FALSE)

\* setFilter(letter)
setFilter(s, letter) == filterByLetter(s, letter, TRUE)

\* The first animation timer's callback: cardsToShow get filtering-show,
\* the empty state is recomputed and the completion timer is set.
\* (showPhaseNoCompletion: the variant that sets no completion timer.)
showPhaseNoCompletion(s, cardsToShow) ==
  LET s1 == [s EXCEPT !.cardClass =
               [c \in Cards |->
                  IF c \in cardsToShow
                    THEN (s.cardClass[c] \ {"filtering-hide"})
                           \cup {"filtering-show"}
                    ELSE s.cardClass[c]]]
  IN updateEmptyState(s1, cardsToShow = {})

showPhase(s, cardsToShow) ==
  LET s1 == [s EXCEPT !.cardClass =
               [c \in Cards |->
                  IF c \in cardsToShow
                    THEN (s.cardClass[c] \ {"filtering-hide"})
                           \cup {"filtering-show"}
                    ELSE s.cardClass[c]]]
      s2 == updateEmptyState(s1, cardsToShow = {})
  IN [s2 EXCEPT !.timers = Append(@, [kind |-> "done", cardsToShow |-> {}])]

\* The second animation timer's callback.
completePhase(s) == cleanupFilterClasses([s EXCEPT !.isAnimating = FALSE])

\* Whether filterByLetter goes past its guard in the current state.
FilterAccepted == ~(isAnimating /\ enableAnimation)

\* The state as handler result s leaves it.
CommitBrand(s) ==
  /\ currentFilter' = s.currentFilter
  /\ isAnimating' = s.isAnimating
  /\ activeButton' = s.active
  /\ disabledButton' = s.disabled
  /\ cardClass' = s.cardClass
  /\ cardDisplay' = s.cardDisplay
  /\ emptyDisplay' = s.emptyDisplay
  /\ gridDisplay' = s.gridDisplay
  /\ hash' = s.hash
  /\ histEntries' = s.entries
  /\ histIndex' = s.index
  /\ timers' = s.timers
  /\ announcements' = s.announcements

\* The model stops taking requests at its bounds: a request pushes at most
\* two history entries and inserts at most one announcement.
Room ==
  /\ histIndex + 2 <= MaxHistory
  /\ Len(announcements) < MaxAnnouncements

\* The page as loaded, before the widget is constructed.
BrandInit ==
  /\ constructed = FALSE
  /\ enableAnimation \in BOOLEAN
  /\ cardLetter \in [Cards -> Letters]
  /\ currentFilter = All
  /\ isAnimating = FALSE
  /\ activeButton = {}
  /\ disabledButton = {}
  /\ cardClass = [c \in Cards |-> {}]
  /\ cardDisplay = [c \in Cards |-> ""]
  /\ emptyDisplay = ""
  /\ gridDisplay = ""
  /\ hash \in InitialFragments
  /\ histEntries = <<hash>>
  /\ histIndex = 1
  /\ timers = <<>>
  /\ announcements = <<>>
  /\ lastReq = NoReq

\* new BrandShowcase(container, options): the constructor runs init().
Construct ==
  /\ ~constructed
  /\ constructed' = TRUE
  /\ CommitBrand(init(Brand))
  /\ LET letter == getLetterFromURL(updateURL(Brand, currentFilter).hash)
     IN lastReq' = [via |-> "init", letter |-> letter,
                    accepted |-> letter # <<>> /\ letter # All /\ FilterAccepted]
  /\ UNCHANGED <<enableAnimation, cardLetter, cmpVars, calcVars>>

\* A click on the alphabet button of `letter`.
AlphabetClick(letter) ==
  /\ constructed /\ Room
  /\ CommitBrand(handleAlphabetClick(Brand, letter))
  /\ lastReq' = [via |-> "click", letter |-> letter,
                 accepted |-> /\ ~isAnimating
                              /\ letter \notin disabledButton
                              /\ letter # currentFilter]
  /\ UNCHANGED <<constructed, enableAnimation, cardLetter, cmpVars, calcVars>>

\* A click on the show-all button.
ShowAllClick ==
  /\ constructed /\ Room
  /\ CommitBrand(handleShowAllClick(Brand))
  /\ lastReq' = [via |-> "showAll", letter |-> All, accepted |-> FilterAccepted]
  /\ UNCHANGED <<constructed, enableAnimation, cardLetter, cmpVars, calcVars>>

\* A call of the public method setFilter(letter).
SetFilter(letter) ==
  /\ constructed /\ Room
  /\ CommitBrand(setFilter(Brand, letter))
  /\ lastReq' = [via |-> "setFilter", letter |-> letter,
                 accepted |-> FilterAccepted]
  /\ UNCHANGED <<constructed, enableAnimation, cardLetter, cmpVars, calcVars>>

\* Back (delta = -1) or forward (delta = 1): the browser moves to the entry
\* and sets the address bar, then the popstate event is handled.
PopState(delta) ==
  /\ constructed
  /\ Len(announcements) < MaxAnnouncements
  /\ histIndex + delta \in 1..Len(histEntries)
  /\ LET navigated == [Brand EXCEPT !.index = histIndex + delta,
                                    !.hash = histEntries[histIndex + delta]]
     IN /\ CommitBrand(handlePopState(navigated))
        /\ lastReq' = [via |-> "popstate",
                       letter |-> getLetterFromURL(navigated.hash),
                       accepted |-> FilterAccepted]
  /\ UNCHANGED <<constructed, enableAnimation, cardLetter, cmpVars, calcVars>>

\* A pending animation timer fires and its callback runs. The animation
\* delay is an option (data-animation-duration), so the animation timers and
\* the announcements' 1000 ms timers may fire in either order.
AnimationTimer ==
  \E i \in 1..Len(timers) :
    /\ LET t == timers[i]
           rest == [Brand EXCEPT !.timers =
                      SubSeq(timers, 1, i - 1) \o SubSeq(timers, i + 1, Len(timers))]
       IN CommitBrand(IF t.kind = "show" THEN showPhase(rest, t.cardsToShow)
                                         ELSE completePhase(rest))
    /\ UNCHANGED <<constructed, enableAnimation, cardLetter, lastReq, cmpVars, calcVars>>

\* The removal timer of the oldest announcement fires.
AnnouncementTimer ==
  /\ announcements # <<>>
  /\ announcements' = Tail(announcements)
  /\ UNCHANGED <<constructed, enableAnimation, cardLetter, currentFilter,
                 isAnimating, activeButton, disabledButton, cardClass,
                 cardDisplay, emptyDisplay, gridDisplay, hash, histEntries,
                 histIndex, timers, lastReq, cmpVars, calcVars>>

(***************************************************************************)
(*                        SilverchefCalculator                             *)
(***************************************************************************)

MaxPending == 2                 \* pending calculations at a time
MinimumAmount == 500            \* the validation threshold, in dollars
WeeksPerYear == 52              \* the weeks of the 12-month rent

Panels == {"results", "loading", "breakdown", "error"}
Outputs == {"weekly-payment", "advance-payment", "security-bond",
            "total-upfront", "total-rent", "out-of-pocket"}

DigitChars == <<"0", "1", "2", "3", "4", "5", "6", "7", "8", "9">>
IsDigit(c) == \E i \in 1..10 : DigitChars[i] = c
DigitValue(c) == (CHOOSE i \in 1..10 : DigitChars[i] = c) - 1

\* The texts the amount field is given by the visitor.
AmountTexts ==
  { <<>>,
    <<"a", "b", "c">>,
    <<"0">>,
    <<"-", "6", "0", "0">>,
    <<"4", "9", "9">>,
    <<"4", "9", "9", ".", "9", "9">>,
    <<"5", "0", "0">>,
    <<"5", "0", "4">>,
    <<"5", "0", "5">>,
    <<"1", "0", "0", "0">>,
    <<"6", "0", "0", "a", "b", "c">> }

\* The data-product-price of the trigger buttons, in cents (<<>> = the
\* attribute is absent).
ProductPrices == { <<>>, <<"4", "9", "9", "0", "0">>,
                   <<"1", "0", "0", "0", "4", "9">> }

NaN == [nan |-> TRUE, cents |-> 0]
NoCalc == [made |-> FALSE, value |-> <<>>, accepted |-> FALSE,
           closed |-> FALSE]

\* The longest prefix of str made of digits.
RECURSIVE LeadingDigits(_)
LeadingDigits(str) ==
  IF str = <<>> \/ ~IsDigit(Head(str)) THEN <<>>
  ELSE <<Head(str)>> \o LeadingDigits(Tail(str))

\* The number a sequence of digits denotes.
RECURSIVE ToNumber(_)
ToNumber(digits) ==
  IF digits = <<>> THEN 0
  ELSE ToNumber(SubSeq(digits, 1, Len(digits) - 1)) * 10
         + DigitValue(digits[Len(digits)])

\* The digits of a natural number (String(n)).
RECURSIVE ToDigits(_)
ToDigits(n) ==
  IF n < 10 THEN <<DigitChars[n + 1]>>
  ELSE ToDigits(n \div 10) \o <<DigitChars[(n % 10) + 1]>>

\* parseFloat: an optional sign, then the longest numeric prefix (digits, an
\* optional point and digits); NaN when that prefix holds no digit.  A number
\* is held in cents (hundredths); a third decimal and beyond are cut.
parseFloat(str) ==
  LET negative == str # <<>> /\ Head(str) = "-"
      body == IF negative THEN Tail(str) ELSE str
      whole == LeadingDigits(body)
      rest == SubSeq(body, Len(whole) + 1, Len(body))
      fraction == IF rest # <<>> /\ Head(rest) = "."
                  THEN LeadingDigits(Tail(rest)) ELSE <<>>
      hundredths == SubSeq(fraction \o <<"0", "0">>, 1, 2)
      magnitude == ToNumber(whole) * 100 + ToNumber(hundredths)
  IN IF whole = <<>> /\ fraction = <<>> THEN NaN
     ELSE [nan |-> FALSE,
           cents |-> IF negative THEN 0 - magnitude ELSE magnitude]

\* Number(str) / 100 rounded, for the data-product-price attribute: the
\* dollars of a price in cents; an absent attribute (null) counts as 0.
productAmountOf(productPrice) ==
  (ToNumber(productPrice) + 50) \div 100

\* Math.round(n / d) of a product computed in binary floating point: the
\* nearest integer; when n / d lies exactly half way the computed product
\* falls just below or just above the tie, and `up` is the side it falls on.
MathRound(n, d, up) ==
  IF (n % d) * 2 = d THEN (n \div d) + (IF up THEN 1 ELSE 0)
  ELSE (2 * n + d) \div (2 * d)

\* The digits of n with a comma before every group of three.
RECURSIVE Grouped(_)
Grouped(n) ==
  IF n < 1000 THEN ToDigits(n)
  ELSE Grouped(n \div 1000) \o <<",">>
         \o SubSeq(<<"0", "0">> \o ToDigits(n % 1000),
                   Len(ToDigits(n % 1000)), Len(ToDigits(n % 1000)) + 2)

\* Intl.NumberFormat('en-AU', currency AUD) of an amount given in cents.
formatCurrency(cents) ==
  <<"$">> \o Grouped(cents \div 100) \o <<".">>
    \o <<DigitChars[((cents % 100) \div 10) + 1],
         DigitChars[(cents % 10) + 1]>>

\* (calculateStaticPaymentsFloor: the variant that cuts the weekly payment
\* down to whole cents instead of rounding it.)
calculateStaticPaymentsFloor(amount, upWeekly, upBond) ==
  LET weeklyPayment == (amount * 19) \div 1000
      advancePayment == weeklyPayment
      securityBond == MathRound(amount, 10, upBond)
      totalUpfront == advancePayment + securityBond
      totalRent12Months == weeklyPayment * WeeksPerYear
      outOfPocket == totalRent12Months
  IN [finance_amount |-> formatCurrency(amount),
      weekly_amount |-> formatCurrency(weeklyPayment),
      total |-> formatCurrency(totalUpfront),
      advance_payment |-> formatCurrency(advancePayment),
      bond |-> formatCurrency(securityBond),
      rent_after_12_months |-> formatCurrency(totalRent12Months),
      out_of_pocket |-> formatCurrency(outOfPocket)]

\* calculateStaticPayments, all amounts in cents: amount * 0.019 * 100 is
\* amount-in-cents * 19 / 1000, amount * 0.1 * 100 is amount-in-cents / 10.
calculateStaticPayments(amount, upWeekly, upBond) ==
  LET weeklyPayment == MathRound(amount * 19, 1000, upWeekly)
      advancePayment == weeklyPayment
      securityBond == MathRound(amount, 10, upBond)
      totalUpfront == advancePayment + securityBond
      totalRent12Months == weeklyPayment * WeeksPerYear
      outOfPocket == totalRent12Months
  IN [finance_amount |-> formatCurrency(amount),
      weekly_amount |-> formatCurrency(weeklyPayment),
      total |-> formatCurrency(totalUpfront),
      advance_payment |-> formatCurrency(advancePayment),
      bond |-> formatCurrency(securityBond),
      rent_after_12_months |-> formatCurrency(totalRent12Months),
      out_of_pocket |-> formatCurrency(outOfPocket)]

\* The calculator's mutable state as one record, so that the handlers below
\* are functions from state to state and compose as the code calls them.
Calc ==
  [modal |-> modal, active |-> modalActive, overflow |-> bodyOverflow,
   value |-> amountValue, display |-> panelDisplay, message |-> errorMessage,
   rendered |-> rendered, pending |-> pending]

hideAllResults(s) ==
  IF s.modal THEN [s EXCEPT !.display = [p \in Panels |-> "none"]] ELSE s

\* openModal: the focus timer (100 ms) changes no state of the model.
openModal(s, productPrice) ==
  LET productAmount == productAmountOf(productPrice)
  IN [s EXCEPT !.modal = TRUE,
               !.value = IF productAmount >= MinimumAmount
                         THEN ToDigits(productAmount) ELSE @,
               !.active = TRUE,
               !.overflow = "hidden"]

closeModal(s) ==
  IF ~s.modal THEN s
  ELSE [hideAllResults([s EXCEPT !.active = FALSE]) EXCEPT !.overflow = ""]

showLoading(s) ==
  LET h == hideAllResults(s)
  IN IF s.modal
     THEN [h EXCEPT !.display["results"] = "block",
                    !.display["loading"] = "block"]
     ELSE h

showResults(s, results) ==
  LET h == hideAllResults(s)
  IN IF ~s.modal THEN h
     ELSE [h EXCEPT
             !.rendered =
               [o \in Outputs |->
                  CASE o = "weekly-payment" -> results.weekly_amount
                    [] o = "advance-payment" -> results.advance_payment
                    [] o = "security-bond" -> results.bond
                    [] o = "total-upfront" -> results.total
                    [] o = "total-rent" -> results.rent_after_12_months
                    [] o = "out-of-pocket" -> results.out_of_pocket],
             !.display["results"] = "block",
             !.display["breakdown"] = "block"]

showError(s, message) ==
  LET h == hideAllResults(s)
  IN IF s.modal
     THEN [h EXCEPT !.message = message,
                    !.display["results"] = "block",
                    !.display["error"] = "block"]
     ELSE h

\* The validation of calculatePayments: `!amount || amount < 500`.
\* (RejectedBelowOrAt: the variant that also rejects the threshold itself.)
RejectedBelowOrAt(amount) ==
  amount.nan \/ amount.cents = 0 \/ amount.cents <= MinimumAmount * 100

Rejected(amount) ==
  amount.nan \/ amount.cents = 0 \/ amount.cents < MinimumAmount * 100

\* calculatePayments up to its await: the request is rejected with the
\* validation message, or the loading state is shown and the completion is
\* left pending with the results computed before the delay.  The catch
\* branch is not modelled: nothing between try and catch throws.
calculatePayments(s, upWeekly, upBond) ==
  IF ~s.modal THEN s
  ELSE LET amount == parseFloat(s.value)
       IN IF Rejected(amount)
          THEN showError(s, "Please enter an amount of $500 or more.")
          ELSE [showLoading(s) EXCEPT
                  !.pending =
                    Append(@, calculateStaticPayments(amount.cents,
                                                      upWeekly, upBond))]

\* The continuation of calculatePayments after its 1500 ms delay.  The
\* delays are equal, so the pending calculations complete oldest first.
completeCalculation(s) ==
  [showResults(s, Head(s.pending)) EXCEPT !.pending = Tail(@)]

CommitCalc(s) ==
  /\ modal' = s.modal
  /\ modalActive' = s.active
  /\ bodyOverflow' = s.overflow
  /\ amountValue' = s.value
  /\ panelDisplay' = s.display
  /\ errorMessage' = s.message
  /\ rendered' = s.rendered
  /\ pending' = s.pending

\* After construction: no modal opened yet, the markup as delivered.
CalculatorInit ==
  /\ modal = FALSE
  /\ modalActive = FALSE
  /\ bodyOverflow = ""
  /\ amountValue = <<>>
  /\ panelDisplay = [p \in Panels |-> ""]
  /\ errorMessage = ""
  /\ rendered = [o \in Outputs |-> <<>>]
  /\ pending = <<>>
  /\ lastCalc = NoCalc

\* A click on a trigger button ([data-silverchef-calculator]).
TriggerClick(productPrice) ==
  /\ CommitCalc(openModal(Calc, productPrice))
  /\ UNCHANGED <<lastCalc, cmpVars, brandVars>>

\* A click on a [data-modal-close] element.
CloseClick ==
  /\ CommitCalc(closeModal(Calc))
  /\ lastCalc' = [lastCalc EXCEPT !.closed = @ \/ modal]
  /\ UNCHANGED <<cmpVars, brandVars>>

\* The Escape key, handled only while the modal is active.
EscapeKey ==
  /\ modal /\ modalActive
  /\ CommitCalc(closeModal(Calc))
  /\ lastCalc' = [lastCalc EXCEPT !.closed = TRUE]
  /\ UNCHANGED <<cmpVars, brandVars>>

\* The visitor types into the amount field, which lies inside the modal.
TypeAmount(text) ==
  /\ modalActive
  /\ amountValue' = text
  /\ UNCHANGED <<modal, modalActive, bodyOverflow, panelDisplay,
                 errorMessage, rendered, pending, lastCalc, cmpVars,
                 brandVars>>

\* The calculate request as the history variable records it.
RequestOf(s) ==
  [made |-> s.modal, value |-> s.value,
   accepted |-> s.modal /\ ~Rejected(parseFloat(s.value)),
   closed |-> FALSE]

\* A click on the calculate button, which lies inside the modal.
CalculateClick ==
  /\ modalActive /\ Len(pending) < MaxPending
  /\ \E upWeekly, upBond \in BOOLEAN :
       /\ CommitCalc(calculatePayments(Calc, upWeekly, upBond))
       /\ lastCalc' = RequestOf(Calc)
  /\ UNCHANGED <<cmpVars, brandVars>>

\* The Enter key in the amount field.
EnterKey ==
  /\ modalActive /\ Len(pending) < MaxPending
  /\ \E upWeekly, upBond \in BOOLEAN :
       /\ CommitCalc(calculatePayments(Calc, upWeekly, upBond))
       /\ lastCalc' = RequestOf(Calc)
  /\ UNCHANGED <<cmpVars, brandVars>>

\* The 1500 ms delay of the oldest pending calculation elapses.
CalculationDelay ==
  /\ pending # <<>>
  /\ CommitCalc(completeCalculation(Calc))
  /\ UNCHANGED <<lastCalc, cmpVars, brandVars>>

CalculatorNext ==
  \/ \E productPrice \in ProductPrices : TriggerClick(productPrice)
  \/ CloseClick
  \/ EscapeKey
  \/ \E text \in AmountTexts : TypeAmount(text)
  \/ CalculateClick
  \/ EnterKey
  \/ CalculationDelay

(***************************************************************************)
(*                           Specifications                                *)
(***************************************************************************)

\* A page without a comparison table.
NoComparison ==
  /\ connected = FALSE
  /\ innerWidth = breakpoint
  /\ mobileState = [b \in Blocks |-> ""]
  /\ mobileSide = [b \in Blocks |-> "left"]
  /\ ariaExpanded = [b \in Blocks |-> ""]
  /\ listening = FALSE
  /\ dispatched = <<>>
  /\ lastInput = NoInput

\* A page without a brand directory.
NoBrand ==
  /\ constructed = FALSE
  /\ enableAnimation = FALSE
  /\ cardLetter = [c \in Cards |-> <<"A">>]
  /\ currentFilter = All
  /\ isAnimating = FALSE
  /\ activeButton = {}
  /\ disabledButton = {}
  /\ cardClass = [c \in Cards |-> {}]
  /\ cardDisplay = [c \in Cards |-> ""]
  /\ emptyDisplay = ""
  /\ gridDisplay = ""
  /\ hash = <<>>
  /\ histEntries = <<hash>>
  /\ histIndex = 1
  /\ timers = <<>>
  /\ announcements = <<>>
  /\ lastReq = NoReq

\* A page without a finance calculator.
NoCalculator ==
  /\ modal = FALSE
  /\ modalActive = FALSE
  /\ bodyOverflow = ""
  /\ amountValue = <<>>
  /\ panelDisplay = [p \in Panels |-> ""]
  /\ errorMessage = ""
  /\ rendered = [o \in Outputs |-> <<>>]
  /\ pending = <<>>
  /\ lastCalc = NoCalc

\* The brand directory.
Init == BrandInit /\ NoComparison /\ NoCalculator

Next ==
  \/ Construct
  \/ \E letter \in ButtonLetters : AlphabetClick(letter)
  \/ ShowAllClick
  \/ \E letter \in RequestLetters : SetFilter(letter)
  \/ \E delta \in {-1, 1} : PopState(delta)
  \/ AnimationTimer
  \/ AnnouncementTimer

Spec == Init /\ [][Next]_vars

\* The brand directory when every pending timer eventually fires.
FairSpec ==
  Spec /\ WF_vars(AnimationTimer) /\ WF_vars(AnnouncementTimer)

\* The comparison table.
ComparisonPage == ComparisonInit /\ NoBrand /\ NoCalculator
ComparisonSpec == ComparisonPage /\ [][ComparisonNext]_vars

\* The finance calculator.
CalculatorPage == CalculatorInit /\ NoComparison /\ NoBrand
CalculatorSpec == CalculatorPage /\ [][CalculatorNext]_vars

(***************************************************************************)
(*                 Claims about the ComparisonShowcase                     *)
(***************************************************************************)

Expanded == {b \in Blocks : mobileState[b] = "expanded"}
\* The viewport is narrow: its width is below 900.
NarrowViewport == innerWidth < 900
ToggleInputs == {"click", "key", "api"}

\* C8: on a narrow viewport, after the toggle of block X has been activated
\* (click, Enter/Space, toggleBlock(side)), X is expanded and every other
\* block is collapsed, also when X was expanded before the activation.
C8_AccordionExclusivity ==
  (/\ lastInput.type \in ToggleInputs
   /\ lastInput.block # 0
   /\ NarrowViewport)
  => \A b \in Blocks :
       mobileState[b] = IF b = lastInput.block THEN "expanded" ELSE "collapsed"

\* C8 witness: on a narrow viewport the toggle of a block that was already
\* expanded has been activated, and that block alone is expanded.
C8_Witness ==
  /\ lastInput.type \in ToggleInputs
  /\ lastInput.block # 0
  /\ lastInput.was = "expanded"
  /\ NarrowViewport
  /\ Expanded = {lastInput.block}

\* C9 (as claimed): whenever the connected widget is on a narrow viewport,
\* at most one block is expanded, whatever the markup said.
C9_AtMostOneExpanded ==
  (connected /\ NarrowViewport) => Cardinality(Expanded) <= 1

\* C10: a step that leaves the connected widget on a wide viewport (a
\* toggle activation there, or a resize event arriving there) changes no
\* block's state.
C10_WideViewportFrozen ==
  [][(connected /\ ~(innerWidth' < 900)) => mobileState' = mobileState]_vars

\* C10 witness: on a wide viewport a toggle was activated while two blocks
\* are expanded (no exclusivity is enforced), one of them not the activated.
C10_Witness ==
  /\ connected
  /\ lastInput.type \in ToggleInputs
  /\ lastInput.block # 0
  /\ ~NarrowViewport
  /\ Cardinality(Expanded) >= 2
  /\ mobileState[lastInput.block] # "expanded"

\* A step in which a toggle is activated: a click, a key press on a toggle,
\* or toggleBlock(side).
ToggleActivation ==
  \/ \E b \in Blocks : click(b)
  \/ \E b \in Blocks, key \in Keys : handleKeydown(b, key)
  \/ \E side \in Sides : toggleBlock(side)

\* The notification due for block b when its state has become `state`.
NotificationFor(b, state) ==
  [name  |-> IF state = "expanded" THEN "comparison:expanded"
                                   ELSE "comparison:collapsed",
   block |-> b,
   side  |-> mobileSide[b],
   state |-> state]

\* C11: when a toggle activation changes the state of a block, the handler
\* dispatches a notification for that block, named comparison:expanded or
\* comparison:collapsed after the block's new state, carrying the block and
\* its side, and sent when the attribute already holds the new state.
C11_NotificationPerChangedBlock ==
  [][ToggleActivation =>
       \A b \in Blocks :
         mobileState'[b] # mobileState[b] =>
           \E i \in 1..Len(dispatched') :
             dispatched'[i] = NotificationFor(b, mobileState'[b])]_vars

\* C11 witness: a toggle activation has expanded a block that was collapsed,
\* and the expanded notification of that block was dispatched with the
\* attribute already set.
C11_Witness ==
  /\ lastInput.type \in ToggleInputs
  /\ lastInput.block # 0
  /\ lastInput.was = "collapsed"
  /\ NarrowViewport
  /\ mobileState[lastInput.block] = "expanded"
  /\ \E i \in 1..Len(dispatched) :
       dispatched[i] = NotificationFor(lastInput.block, "expanded")

\* C22: a step dispatches a comparison:expanded or comparison:collapsed
\* notification only for a block whose data-mobile-state changed in that
\* step; re-activating the expanded block, collapsing blocks that are
\* collapsed already and a resize on a narrow viewport dispatch none.
C22_NotificationOnlyWhenChanged ==
  [][\A i \in 1..Len(dispatched') :
       mobileState'[dispatched'[i].block] # mobileState[dispatched'[i].block]
    ]_vars

(***************************************************************************)
(*                    Claims about the BrandShowcase                       *)
(***************************************************************************)

UpperCase == {"A", "B", "C", "D", "E", "F", "G", "H", "I", "J", "K", "L", "M",
              "N", "O", "P", "Q", "R", "S", "T", "U", "V", "W", "X", "Y", "Z"}
\* A single uppercase letter A..Z.
SingleLetters == {<<ch>> : ch \in UpperCase}
\* Filter State of the specification: one of {all} \cup {A..Z}.
ValidFilters == {All} \cup SingleLetters
\* The fragment that encodes letter L: '#letter-' followed by L.
Encoded(L) == <<"#", "l", "e", "t", "t", "e", "r", "-">> \o L
\* The cards tagged with the letter; every card for `all`.
Tagged(letter) ==
  IF letter = All THEN Cards ELSE {c \in Cards : cardLetter[c] = letter}
\* The cards the page shows: in a displayed grid, not display:none, and
\* without the hide class.
Shown ==
  {c \in Cards : /\ gridDisplay # "none"
                 /\ cardDisplay[c] # "none"
                 /\ "filtering-hide" \notin cardClass[c]}
\* The controller is idle: no transition in progress, no animation timer.
Idle == ~isAnimating /\ timers = <<>>
\* The letters A..Z that no card carries.
DisabledLetters ==
  {L \in SingleLetters : \A c \in Cards : cardLetter[c] # L}
\* The part of the widget a filter request can change.
FilterEffects ==
  <<currentFilter, isAnimating, activeButton, cardClass, cardDisplay,
    emptyDisplay, gridDisplay, timers, announcements>>
AddressBar == <<hash, histEntries, histIndex>>

\* C1 (as claimed): once an accepted setFilter(letter) has completed (the
\* controller is idle and no animation timer is pending), the cards shown
\* are exactly the cards tagged with the letter (all cards for `all`).
C1_ShownIsExactlyMatching ==
  (constructed /\ Idle /\ lastReq.via = "setFilter" /\ lastReq.accepted)
  => Shown = Tagged(lastReq.letter)

\* C2 (as claimed): with animation enabled and a transition in progress, a
\* request for another letter (alphabet click, show-all click, setFilter)
\* changes neither the filter, the active button, the card classes nor the
\* address bar and history; a back/forward navigation changes neither the
\* filter, the active button, the card classes nor the history entries.
C2_RequestsIgnoredWhileAnimating ==
  [][(constructed /\ enableAnimation /\ isAnimating) =>
       /\ ( \/ \E l \in ButtonLetters \ {currentFilter} : AlphabetClick(l)
            \/ (currentFilter # All /\ ShowAllClick)
            \/ \E l \in RequestLetters \ {currentFilter} : SetFilter(l) )
          => UNCHANGED <<currentFilter, activeButton, cardClass, AddressBar>>
       /\ (\E d \in {-1, 1} : PopState(d))
          => UNCHANGED <<currentFilter, activeButton, cardClass, histEntries>>
    ]_vars

\* No two successive history entries carry the same fragment.
NoDuplicateEntries ==
  \A i \in 1..(Len(histEntries) - 1) : histEntries[i] # histEntries[i + 1]

\* C3 (as claimed): a request (alphabet click, setFilter) for the letter
\* that already is the current filter changes nothing: no animation, no
\* announcement, no history entry; and the history never holds the same
\* entry twice in succession.
C3_SameLetterIsNoOp ==
  /\ [][constructed =>
          \A l \in RequestLetters :
            (l = currentFilter /\ (AlphabetClick(l) \/ SetFilter(l)))
            => UNCHANGED <<FilterEffects, AddressBar>>]_vars
  /\ [](constructed => NoDuplicateEntries)

\* C4 (as claimed): the current filter is never a letter A..Z that no card
\* carries.
C4_FilterNeverDisabled ==
  constructed => currentFilter \notin DisabledLetters

\* C5 (as claimed): after an accepted filter change to a letter L in A..Z
\* the fragment is '#letter-L' and decodes to L; after an accepted change
\* to `all` the address bar has no fragment and decodes to `all`.
C5_RoundTripAnyEntryPoint ==
  (constructed /\ lastReq.accepted) =>
    /\ currentFilter = lastReq.letter
    /\ lastReq.letter \in SingleLetters =>
         (hash = Encoded(lastReq.letter) /\ getLetterFromURL(hash) = lastReq.letter)
    /\ lastReq.letter = All => (hash = <<>> /\ getLetterFromURL(hash) = All)

\* C5 (amended): as C5, but after `all` was restored by a back/forward
\* navigation the fragment of the entry navigated to stays in the address
\* bar; it still decodes to `all`.
C5_FragmentRoundTrip ==
  (constructed /\ lastReq.accepted) =>
    /\ currentFilter = lastReq.letter
    /\ lastReq.letter \in SingleLetters =>
         (hash = Encoded(lastReq.letter) /\ getLetterFromURL(hash) = lastReq.letter)
    /\ lastReq.letter = All =>
         /\ getLetterFromURL(hash) = All
         /\ lastReq.via # "popstate" => hash = <<>>

\* C5 witness: the filter was set to B and the address bar reads #letter-B.
C5_Witness ==
  /\ constructed /\ lastReq.accepted
  /\ lastReq.via = "setFilter"
  /\ lastReq.letter = <<"B">>
  /\ currentFilter = <<"B">>
  /\ hash = <<"#", "l", "e", "t", "t", "e", "r", "-", "B">>

\* C6 (as claimed): every back/forward navigation, in any controller state,
\* makes the letter decoded from the new fragment the current filter, and
\* pushes no history entry.
C6_PopStateAlwaysReapplies ==
  [][\A d \in {-1, 1} :
       PopState(d) => /\ currentFilter' = getLetterFromURL(hash')
                      /\ histEntries' = histEntries]_vars

\* C6 (amended): a back/forward navigation handled while no animated
\* transition is in progress makes the decoded letter the current filter;
\* one handled during a transition leaves the filter as it is; neither
\* pushes a history entry.
C6_PopStateReappliesWhenIdle ==
  [][\A d \in {-1, 1} :
       PopState(d) =>
         /\ histEntries' = histEntries
         /\ currentFilter' = IF enableAnimation /\ isAnimating
                               THEN currentFilter
                               ELSE getLetterFromURL(hash')]_vars

\* C6 witness: a navigation back to #letter-A was handled and A is the
\* current filter, while the entries after it are still in the history.
C6_Witness ==
  /\ constructed
  /\ lastReq.via = "popstate" /\ lastReq.accepted
  /\ hash = <<"#", "l", "e", "t", "t", "e", "r", "-", "A">>
  /\ currentFilter = <<"A">>
  /\ histIndex < Len(histEntries)

\* C7 (as claimed): a fragment that is not '#letter-' followed by one
\* uppercase letter decodes to `all`, and the filter a navigation restores
\* from the address bar is one of {all} \cup {A..Z}.
C7_DecodeDefaultsToAll ==
  constructed =>
    /\ hash \notin {Encoded(L) : L \in SingleLetters}
         => getLetterFromURL(hash) = All
    /\ (lastReq.via = "popstate" /\ lastReq.accepted)
         => currentFilter \in ValidFilters

\* A step in which a filter request goes past the guards of its handler and
\* of filterByLetter (lastReq' records the request the step made).
AcceptedChange ==
  /\ lastReq'.accepted
  /\ \/ Construct
     \/ \E l \in ButtonLetters : AlphabetClick(l)
     \/ ShowAllClick
     \/ \E l \in RequestLetters : SetFilter(l)
     \/ \E d \in {-1, 1} : PopState(d)

\* The announcement stated for a filter: `Showing all brands` for all,
\* `Showing brands starting with X` for letter X.
AnnouncementFor(L) ==
  IF L = All THEN [text |-> "Showing all brands", letter |-> <<>>]
  ELSE [text |-> "Showing brands starting with ", letter |-> L]

\* C14: every accepted filter change inserts exactly one live-region
\* announcement, with the text stated for its letter, and nothing else
\* inserts one; when the pending timers eventually fire and the filter
\* changes stop, every announcement has been removed and none remains.
C14_AnnouncementsInsertedAndRemoved ==
  /\ [][/\ AcceptedChange =>
             announcements' = Append(announcements,
                                     AnnouncementFor(lastReq'.letter))
        /\ Len(announcements') > Len(announcements) => AcceptedChange]_vars
  /\ <>[][Len(announcements') <= Len(announcements)]_vars
       => <>[](announcements = <<>>)

\* C14 witness: an accepted request for letter A has inserted its
\* announcement behind the one of an earlier change, which is still there.
C14_Witness ==
  /\ constructed
  /\ lastReq.accepted
  /\ lastReq.letter = <<"A">>
  /\ Len(announcements) = 2
  /\ announcements[2] = AnnouncementFor(<<"A">>)

\* C15: with animation enabled at most one filter animation is in flight:
\* at most one show-phase or completion timer is pending at a time (so no
\* hide-phase starts while one is pending), and isAnimating is true exactly
\* while such a timer is pending.
C15_AtMostOneAnimation ==
  enableAnimation =>
    /\ Len(timers) <= 1
    /\ isAnimating <=> timers # <<>>

\* C15 witness: a setFilter request arrived while the completion timer of a
\* transition was pending and was dropped; that timer is the only one.
C15_Witness ==
  /\ constructed /\ enableAnimation /\ isAnimating
  /\ lastReq.via = "setFilter" /\ ~lastReq.accepted
  /\ lastReq.letter # currentFilter
  /\ Len(timers) = 1
  /\ timers[1].kind = "done"

\* A timer of the given kind is pending in the sequence ts.
PendingKind(ts, kind) == \E i \in 1..Len(ts) : ts[i].kind = kind

\* No card carries a transient filter class.
NoTransientClass ==
  \A c \in Cards :
    cardClass[c] \cap {"filtering-hide", "filtering-show"} = {}

\* C16: when the pending timers eventually fire, every started transition
\* completes: from isAnimating the controller reaches a state with
\* isAnimating false, no timer pending and no card carrying filtering-hide or
\* filtering-show; the completion timer is set only by the show phase, and
\* isAnimating is cleared only by the completion timer.
C16_TransitionCompletes ==
  /\ isAnimating ~> (~isAnimating /\ timers = <<>> /\ NoTransientClass)
  /\ [][/\ (PendingKind(timers', "done") /\ ~PendingKind(timers, "done"))
             => (PendingKind(timers, "show") /\ ~PendingKind(timers', "show"))
        /\ (isAnimating /\ ~isAnimating')
             => (PendingKind(timers, "done") /\ timers' = <<>>)]_vars

\* C16 witness: an accepted animated request has run both of its phases:
\* the show phase has set the grid and the empty state, the completion has
\* cleared isAnimating and the transient classes.
C16_Witness ==
  /\ constructed /\ enableAnimation
  /\ lastReq.accepted
  /\ lastReq.letter = currentFilter
  /\ ~isAnimating /\ timers = <<>>
  /\ gridDisplay # ""
  /\ NoTransientClass

\* C17: whenever the controller is idle after an accepted filter change
\* (animated or instant), the empty-state panel is shown and the grid hidden
\* if and only if no card matches the current filter, which is the letter of
\* that change; otherwise the panel is hidden and the grid shown, so the
\* panel is hidden after every change to `all`.
C17_EmptyStateReflectsFilter ==
  (constructed /\ Idle /\ (lastReq.accepted \/ emptyDisplay # "")) =>
    /\ lastReq.accepted => currentFilter = lastReq.letter
    /\ IF Tagged(currentFilter) = {}
       THEN emptyDisplay = "block" /\ gridDisplay = "none"
       ELSE emptyDisplay = "none" /\ gridDisplay = "grid"

\* C17 witness: an animated change to a letter no card carries has completed
\* and the panel is shown in place of the grid.
C17_Witness ==
  /\ constructed /\ enableAnimation /\ Idle
  /\ lastReq.accepted
  /\ currentFilter \in Letters
  /\ Tagged(currentFilter) = {}
  /\ emptyDisplay = "block" /\ gridDisplay = "none"

\* C18: in every idle state of the constructed controller (no animation in
\* flight) the letter decoded from the current fragment is the current
\* filter.
C18_AddressBarMatchesFilter ==
  (constructed /\ Idle) => getLetterFromURL(hash) = currentFilter

\* C19: constructing the controller on a page whose address bar carries
\* #letter-L, for a letter L that has a card, ends with L as the current
\* filter and #letter-L still in the address bar.
C19_InitialFragmentRestored ==
  \A L \in Letters :
    (constructed /\ lastReq.via = "init" /\ histEntries[1] = Encoded(L)
       /\ Tagged(L) # {})
    => (currentFilter = L /\ hash = Encoded(L))

(***************************************************************************)
(*                 Claims about the SilverchefCalculator                   *)
(***************************************************************************)

\* A step that makes a calculate request: a click on the calculate button or
\* the Enter key in the amount field.  (Such a step leaves the amount field
\* and the modal as they are; the first conjuncts only spare evaluating the
\* handlers on the other steps.)
CalculateRequest ==
  /\ modalActive /\ modalActive'
  /\ amountValue' = amountValue
  /\ CalculateClick \/ EnterKey

\* The text in the amount field is no number, or a number below 500.
BelowMinimum(text) ==
  parseFloat(text).nan \/ parseFloat(text).cents < 500 * 100

ValidationMessage == "Please enter an amount of $500 or more."

\* C12: a calculate request whose amount is below 500 (499, zero, negative,
\* empty or no number) shows the validation message, enters no loading state,
\* schedules no delayed completion and renders no result value; a request of
\* exactly 500 or more is accepted: it enters the loading state and one
\* completion is scheduled.
C12_BelowMinimumRejected ==
  [][CalculateRequest =>
       IF BelowMinimum(amountValue)
       THEN /\ panelDisplay'["error"] = "block"
            /\ errorMessage' = ValidationMessage
            /\ panelDisplay'["loading"] # "block"
            /\ panelDisplay'["breakdown"] # "block"
            /\ pending' = pending
            /\ rendered' = rendered
       ELSE /\ panelDisplay'["loading"] = "block"
            /\ panelDisplay'["error"] # "block"
            /\ Len(pending') = Len(pending) + 1]_vars

\* C12 witness: a request for 499 was rejected while an earlier calculation
\* was still pending, and the validation message is displayed.
C12_Witness ==
  /\ lastCalc.made
  /\ lastCalc.value = <<"4", "9", "9">>
  /\ ~lastCalc.accepted
  /\ panelDisplay["error"] = "block"
  /\ errorMessage = ValidationMessage
  /\ Len(pending) = 1

\* The text is a whole-dollar amount: digits only.
WholeDollar(text) ==
  text # <<>> /\ \A i \in 1..Len(text) : IsDigit(text[i])

\* The results stated for a whole-dollar amount A: the weekly payment is 1.9%
\* of A in whole cents, a nearest one (at most half a cent away); the advance
\* payment equals it; the bond is 10% of A; the total upfront is their sum;
\* the 12-month rent and the out-of-pocket total are 52 weekly payments.
StatedResults(r, A) ==
  \E weekly \in {(19 * A) \div 10, (19 * A) \div 10 + 1} :
    /\ 10 * weekly - 19 * A \in -5..5
    /\ r.weekly_amount = formatCurrency(weekly)
    /\ r.advance_payment = formatCurrency(weekly)
    /\ r.bond = formatCurrency(10 * A)
    /\ r.total = formatCurrency(weekly + 10 * A)
    /\ r.rent_after_12_months = formatCurrency(52 * weekly)
    /\ r.out_of_pocket = formatCurrency(52 * weekly)

\* The result elements show the results r.
Shows(shown, r) ==
  /\ shown["weekly-payment"] = r.weekly_amount
  /\ shown["advance-payment"] = r.advance_payment
  /\ shown["security-bond"] = r.bond
  /\ shown["total-upfront"] = r.total
  /\ shown["total-rent"] = r.rent_after_12_months
  /\ shown["out-of-pocket"] = r.out_of_pocket

\* C13: an accepted request for a whole-dollar amount A >= 500 leaves pending
\* the results stated for A (weekly = advance = 1.9% of A to the nearest cent,
\* bond = 10% of A, upfront = weekly + bond, 12-month rent = out-of-pocket =
\* 52 weekly payments), for A = 1000: 19.00, 100.00, 119.00 and 988.00; and
\* the completion of a calculation renders exactly the results left pending.
C13_PaymentArithmetic ==
  /\ [][(CalculateRequest /\ WholeDollar(amountValue)
           /\ ToNumber(amountValue) >= 500) =>
         /\ Len(pending') = Len(pending) + 1
         /\ StatedResults(pending'[Len(pending')], ToNumber(amountValue))
         /\ amountValue = <<"1", "0", "0", "0">> =>
              LET r == pending'[Len(pending')]
              IN /\ r.weekly_amount = <<"$", "1", "9", ".", "0", "0">>
                 /\ r.bond = <<"$", "1", "0", "0", ".", "0", "0">>
                 /\ r.total = <<"$", "1", "1", "9", ".", "0", "0">>
                 /\ r.rent_after_12_months
                      = <<"$", "9", "8", "8", ".", "0", "0">>]_vars
  /\ [][CalculationDelay =>
         /\ Shows(rendered', Head(pending))
         /\ panelDisplay'["breakdown"] = "block"]_vars

\* C13 witness: the request for 504 was accepted and completed; the weekly
\* payment shown is 9.58 (957.6 cents, rounded) and the rent 498.16.
C13_Witness ==
  /\ lastCalc.accepted
  /\ lastCalc.value = <<"5", "0", "4">>
  /\ pending = <<>>
  /\ panelDisplay["breakdown"] = "block"
  /\ rendered["weekly-payment"] = <<"$", "9", ".", "5", "8">>
  /\ rendered["security-bond"] = <<"$", "5", "0", ".", "4", "0">>
  /\ rendered["total-upfront"] = <<"$", "5", "9", ".", "9", "8">>
  /\ rendered["total-rent"] = <<"$", "4", "9", "8", ".", "1", "6">>

\* C20: once closeModal has run, the results, loading, breakdown and error
\* panels stay hidden until a new calculate request is made in the reopened
\* modal, also when a calculation was still pending when the modal closed.
C20_HiddenAfterClose ==
  lastCalc.closed => \A p \in Panels : panelDisplay[p] # "block"

\* The results computed from the amount text of a request, for one of the
\* sides a half-cent tie may fall on.
ResultsOf(text) ==
  {calculateStaticPayments(parseFloat(text).cents, upWeekly, upBond) :
     upWeekly \in BOOLEAN, upBond \in BOOLEAN}

\* C21: once every pending calculation has completed (and the modal was not
\* closed after the latest request), the calculator displays the outcome of
\* the latest calculate request: the error panel if validation rejected it,
\* the values computed from its amount if it was accepted.
C21_LatestRequestDisplayed ==
  (lastCalc.made /\ ~lastCalc.closed /\ pending = <<>>) =>
    IF lastCalc.accepted
    THEN /\ panelDisplay["breakdown"] = "block"
         /\ panelDisplay["error"] # "block"
         /\ \E r \in ResultsOf(lastCalc.value) : Shows(rendered, r)
    ELSE /\ panelDisplay["error"] = "block"
         /\ panelDisplay["breakdown"] # "block"

=============================================================================
